---- MODULE Spec2Model ----
(***************************************************************************)
(* Model of motion_capture_firefly/thread_cam.py: a CameraManager that     *)
(* spawns one CameraWorker process per camera; the workers share one       *)
(* multiprocessing.Barrier(num_cams) and one multiprocessing.Event.        *)
(*                                                                         *)
(* The barrier is Python's threading.Barrier algorithm (which              *)
(* multiprocessing.Barrier runs on shared memory): a counter _count and a  *)
(* state _state (0 filling, 1 draining, -2 broken), every operation run    *)
(* under one condition lock, so each lock-holding section is one step.     *)
(***************************************************************************)
EXTENDS Integers, FiniteSets, Sequences, TLC

\* Largest number of cameras bus.getNumOfCameras() reports in the model.
MaxCams == 2
\* Largest number of triggers one worker issues in the model.
MaxCycles == 2

Cams == 0 .. (MaxCams - 1)

\* threading.Barrier._state values
FILLING == 0
DRAINING == 1
RESETTING == -1
BROKEN == -2

VARIABLES
    num_cams,      \* CameraManager.num_cams
    processes,     \* len(CameraManager.processes): workers 0..processes-1 spawned
    cam_index,     \* per spawned process: its CameraWorker.cam_index, -1 before
    mgr,           \* where the manager (main process) is
    joined,        \* index of the process stop() is joining
    stop_event,    \* multiprocessing.Event flag
    b_state,       \* Barrier._state
    b_count,       \* Barrier._count
    pc,            \* per worker: where CameraWorker.run is
    outcome,       \* per worker: how its last barrier.wait ended
    lastRetrieve,  \* per worker: how its last retrieveBuffer ended
    gen,           \* number of times the barrier has released
    polled,        \* per worker: polls that ended with bit 31 read clear
    arrived,       \* per worker: barrier arrivals counted in _count
    released,      \* per worker: barrier waits that returned an index
    fired,         \* per worker: writeRegister(SOFTWARE_TRIGGER, FIRE_VALUE) calls
    disconnects,   \* per worker: cam.disconnect() calls
    stopInPoll     \* per worker: stop_event was set while it was in poll_for_trigger_ready

vars == << num_cams, processes, cam_index, mgr, joined, stop_event, b_state, b_count, pc,
           outcome, lastRetrieve, gen, polled, arrived, released,
           fired, disconnects, stopInPoll >>

mgrVars == << num_cams, processes, cam_index, mgr, joined, stop_event >>
barrierVars == << b_state, b_count, gen >>
ghostVars == << outcome, lastRetrieve, polled, arrived, released, fired, disconnects, stopInPoll >>

Workers == 0 .. (num_cams - 1)

\* The values the state takes: the manager's and the workers' control points,
\* the barrier's fields and the call counters.
TypeOK ==
    /\ num_cams \in 1 .. MaxCams
    /\ processes \in 0 .. num_cams
    /\ cam_index \in [Cams -> -1 .. (MaxCams - 1)]
    /\ mgr \in {"start", "running", "stop_abort", "stop_join", "returned"}
    /\ joined \in 0 .. num_cams
    /\ stop_event \in BOOLEAN
    /\ b_state \in {FILLING, DRAINING, RESETTING, BROKEN}
    /\ b_count \in 0 .. num_cams
    /\ pc \in [Cams -> {"unspawned", "setup", "loop_top", "poll", "rendezvous",
                        "barrier_wait", "fire", "retrieve", "shutting_down",
                        "terminated"}]
    /\ outcome \in [Cams -> {"none", "released", "timeout", "broken"}]
    /\ lastRetrieve \in [Cams -> {"none", "ok", "Fc2error"}]
    /\ gen \in 0 .. MaxCycles
    /\ polled \in [Cams -> 0 .. MaxCycles]
    /\ arrived \in [Cams -> 0 .. MaxCycles]
    /\ released \in [Cams -> 0 .. MaxCycles]
    /\ fired \in [Cams -> 0 .. MaxCycles]
    /\ disconnects \in [Cams -> 0 .. 1]
    /\ stopInPoll \in [Cams -> BOOLEAN]

\* Mutant of Parties: a barrier built for one party too few.
PartiesOneShort == num_cams - 1

\* CameraManager.__init__: the barrier is built for num_cams parties.
Parties == num_cams

\* What Barrier.wait raises when its timeout elapses (Barrier._wait breaks the
\* barrier and raises BrokenBarrierError), and when it finds the barrier broken.
WaitTimeoutRaises == "BrokenBarrierError"

\* Mutant of WaitBrokenRaises: a broken barrier reported as a timeout.
WaitBrokenRaisesTimeoutError == "TimeoutError"

WaitBrokenRaises == "BrokenBarrierError"

\* The except clause around barrier.wait: which exceptions it catches.
ExceptTimeoutError(e) == e = "TimeoutError"

\* Mutant of AfterWaitRaises: the exception swallowed, run falling through
\* to the fire statement.
AfterWaitRaisesFallsThrough(e) == "fire"

\* Where run continues when barrier.wait raises e: `continue` goes back to the
\* while condition; anything not caught leaves the loop through `finally`.
AfterWaitRaises(e) == IF ExceptTimeoutError(e) THEN "loop_top" ELSE "shutting_down"

\* Mutant of BarrierExit: the barrier reopens before the last waiter left.
BarrierExitEarly(count, state) ==
    IF state \in {RESETTING, DRAINING} THEN FILLING ELSE state

\* Barrier._exit: the last one out of a draining barrier reopens it.
BarrierExit(count, state) ==
    IF count = 0 /\ state \in {RESETTING, DRAINING} THEN FILLING ELSE state

Init ==
    /\ num_cams \in 1 .. MaxCams
    /\ processes = 0
    /\ cam_index = [p \in Cams |-> -1]
    /\ mgr = "start"
    /\ joined = 0
    /\ stop_event = FALSE
    /\ b_state = FILLING
    /\ b_count = 0
    /\ pc = [w \in Cams |-> "unspawned"]
    /\ outcome = [w \in Cams |-> "none"]
    /\ lastRetrieve = [w \in Cams |-> "none"]
    /\ gen = 0
    /\ polled = [w \in Cams |-> 0]
    /\ arrived = [w \in Cams |-> 0]
    /\ released = [w \in Cams |-> 0]
    /\ fired = [w \in Cams |-> 0]
    /\ disconnects = [w \in Cams |-> 0]
    /\ stopInPoll = [w \in Cams |-> FALSE]

----------------------------------------------------------------------------
\* CameraManager

\* Mutant of WorkerIndex: every worker is given camera 0.
WorkerIndexZero(i) == 0

\* start(): the camera index given to the worker made in loop iteration i,
\* CameraWorker(i, self.barrier, self.stop_event).
WorkerIndex(i) == i

\* start(): one loop iteration: create worker i, start its process, append it.
Start ==
    /\ mgr = "start"
    /\ processes < num_cams
    /\ pc[processes] = "unspawned"
    /\ pc' = [pc EXCEPT ![processes] = "setup"]
    /\ cam_index' = [cam_index EXCEPT ![processes] = WorkerIndex(processes)]
    /\ processes' = processes + 1
    /\ mgr' = IF processes + 1 = num_cams THEN "running" ELSE "start"
    /\ UNCHANGED << num_cams, joined, stop_event >>
    /\ UNCHANGED barrierVars
    /\ UNCHANGED ghostVars

\* stop(), first statement: stop_event.set().
StopSet ==
    /\ mgr = "running"
    /\ stop_event' = TRUE
    /\ mgr' = "stop_abort"
    /\ stopInPoll' = [w \in Cams |-> stopInPoll[w] \/ pc[w] = "poll"]
    /\ UNCHANGED << num_cams, processes, cam_index, joined, pc >>
    /\ UNCHANGED barrierVars
    /\ UNCHANGED << outcome, lastRetrieve, polled, arrived, released, fired, disconnects >>

\* Mutant of StopAbort: stop() aborting the barrier without having set the
\* stop signal.
StopAbortBeforeSet ==
    /\ mgr = "running"
    /\ b_state' = BROKEN
    /\ mgr' = "stop_join"
    /\ joined' = 0
    /\ UNCHANGED << num_cams, processes, cam_index, stop_event, b_count, gen, pc >>
    /\ UNCHANGED ghostVars

\* stop(), second statement: barrier.abort(), i.e. Barrier._break under the lock.
StopAbort ==
    /\ mgr = "stop_abort"
    /\ b_state' = BROKEN
    /\ mgr' = "stop_join"
    /\ joined' = 0
    /\ UNCHANGED << num_cams, processes, cam_index, stop_event, b_count, gen, pc >>
    /\ UNCHANGED ghostVars

\* stop(), the join loop: p.join() returns once process p has ended.
StopJoin ==
    /\ mgr = "stop_join"
    /\ joined < processes
    /\ pc[joined] = "terminated"
    /\ joined' = joined + 1
    /\ mgr' = IF joined + 1 = processes THEN "returned" ELSE "stop_join"
    /\ UNCHANGED << num_cams, processes, cam_index, stop_event, pc >>
    /\ UNCHANGED barrierVars
    /\ UNCHANGED ghostVars

----------------------------------------------------------------------------
\* CameraWorker.run

\* Lines 39-53: enable_embedded_timestamp runs before the try block, so an
\* error there ends the process with no cleanup; connect, trigger-mode
\* configuration and startCapture run inside it, so an error there goes to
\* the finally block.
Setup(w) ==
    /\ pc[w] = "setup"
    /\ \E r \in {"ok", "TimestampError", "ConnectError", "ConfigError"} :
          /\ pc' = [pc EXCEPT ![w] =
                        CASE r = "ok" -> "loop_top"
                          [] r = "TimestampError" -> "terminated"
                          [] OTHER -> "shutting_down"]
    /\ UNCHANGED mgrVars
    /\ UNCHANGED barrierVars
    /\ UNCHANGED ghostVars

\* Mutant of LoopTop: a loop that does not look at the stop signal.
LoopTopIgnoresStop(w) ==
    /\ pc[w] = "loop_top"
    /\ fired[w] < MaxCycles
    /\ pc' = [pc EXCEPT ![w] = "poll"]
    /\ UNCHANGED mgrVars
    /\ UNCHANGED barrierVars
    /\ UNCHANGED ghostVars

\* The while condition: `while not self.stop_event.is_set()`.
LoopTop(w) ==
    /\ pc[w] = "loop_top"
    /\ IF stop_event
          THEN pc' = [pc EXCEPT ![w] = "shutting_down"]
          ELSE /\ fired[w] < MaxCycles
               /\ pc' = [pc EXCEPT ![w] = "poll"]
    /\ UNCHANGED mgrVars
    /\ UNCHANGED barrierVars
    /\ UNCHANGED ghostVars

\* poll_for_trigger_ready: one readRegister(SOFTWARE_TRIGGER). The camera
\* decides bit 31: clear ends the poll, set sleeps 1 ms and reads again.
\* The function reads nothing but the register.
PollReady(w) ==
    /\ pc[w] = "poll"
    /\ \E bit31 \in BOOLEAN :
          /\ pc' = [pc EXCEPT ![w] = IF bit31 THEN "poll" ELSE "rendezvous"]
          /\ polled' = [polled EXCEPT ![w] = IF bit31 THEN @ ELSE @ + 1]
    /\ UNCHANGED mgrVars
    /\ UNCHANGED barrierVars
    /\ UNCHANGED << outcome, lastRetrieve, arrived, released, fired, disconnects, stopInPoll >>

\* barrier.wait(timeout=5), up to the point where it blocks or returns:
\* Barrier._enter blocks while the barrier drains and raises if it is broken;
\* then _count += 1; the last party releases (Barrier._release) and returns,
\* the others block in Barrier._wait.
BarrierArrive(w) ==
    /\ pc[w] = "rendezvous"
    /\ b_state \notin {DRAINING, RESETTING}
    /\ IF b_state = BROKEN
          THEN /\ pc' = [pc EXCEPT ![w] = AfterWaitRaises(WaitBrokenRaises)]
               /\ outcome' = [outcome EXCEPT ![w] = "broken"]
               /\ UNCHANGED << b_state, b_count, gen, arrived, released >>
          ELSE IF b_count + 1 = Parties
          THEN /\ b_state' = BarrierExit(b_count, DRAINING)
               /\ b_count' = b_count
               /\ gen' = gen + 1
               /\ arrived' = [arrived EXCEPT ![w] = @ + 1]
               /\ released' = [released EXCEPT ![w] = @ + 1]
               /\ outcome' = [outcome EXCEPT ![w] = "released"]
               /\ pc' = [pc EXCEPT ![w] = "fire"]
          ELSE /\ b_count' = b_count + 1
               /\ arrived' = [arrived EXCEPT ![w] = @ + 1]
               /\ pc' = [pc EXCEPT ![w] = "barrier_wait"]
               /\ UNCHANGED << b_state, gen, released, outcome >>
    /\ UNCHANGED mgrVars
    /\ UNCHANGED << lastRetrieve, polled, fired, disconnects, stopInPoll >>

\* Barrier._wait after a notify: the waiter reacquires the lock and looks at
\* _state: broken raises BrokenBarrierError, draining returns; then the
\* finally of Barrier.wait does _count -= 1 and Barrier._exit.
BarrierWake(w) ==
    /\ pc[w] = "barrier_wait"
    /\ b_state # FILLING
    /\ b_count' = b_count - 1
    /\ b_state' = BarrierExit(b_count - 1, b_state)
    /\ IF b_state < 0
          THEN /\ pc' = [pc EXCEPT ![w] = AfterWaitRaises(WaitBrokenRaises)]
               /\ outcome' = [outcome EXCEPT ![w] = "broken"]
               /\ UNCHANGED released
          ELSE /\ pc' = [pc EXCEPT ![w] = "fire"]
               /\ released' = [released EXCEPT ![w] = @ + 1]
               /\ outcome' = [outcome EXCEPT ![w] = "released"]
    /\ UNCHANGED mgrVars
    /\ UNCHANGED << gen, lastRetrieve, polled, arrived, fired, disconnects, stopInPoll >>

\* Barrier._wait when the 5 s elapse with _state still 0: Barrier._break,
\* raise; then _count -= 1 and Barrier._exit.
BarrierTimeout(w) ==
    /\ pc[w] = "barrier_wait"
    /\ b_state = FILLING
    /\ b_state' = BarrierExit(b_count - 1, BROKEN)
    /\ b_count' = b_count - 1
    /\ pc' = [pc EXCEPT ![w] = AfterWaitRaises(WaitTimeoutRaises)]
    /\ outcome' = [outcome EXCEPT ![w] = "timeout"]
    /\ UNCHANGED mgrVars
    /\ UNCHANGED << gen, lastRetrieve, polled, arrived, released, fired, disconnects, stopInPoll >>

\* Where run continues after writeRegister ended with r: the call is inside
\* no try/except of its own, so an Fc2error leaves the loop through the
\* finally block.
AfterFire(r) == IF r = "ok" THEN "retrieve" ELSE "shutting_down"

\* cam.writeRegister(SOFTWARE_TRIGGER, FIRE_VALUE).
Fire(w) ==
    /\ pc[w] = "fire"
    /\ fired' = [fired EXCEPT ![w] = @ + 1]
    /\ \E r \in {"ok", "Fc2error"} :
          pc' = [pc EXCEPT ![w] = AfterFire(r)]
    /\ UNCHANGED mgrVars
    /\ UNCHANGED barrierVars
    /\ UNCHANGED << outcome, lastRetrieve, polled, arrived, released, disconnects, stopInPoll >>

\* Mutant of ExceptFc2error: a retrieve with no except clause.
ExceptNothing(e) == FALSE

\* The except clause around retrieveBuffer: which exceptions it catches.
ExceptFc2error(e) == e = "Fc2error"

\* Where run continues after retrieveBuffer ended with r: success and a
\* caught exception both fall to the end of the loop body, i.e. the while
\* condition; anything else leaves through finally.
AfterRetrieve(r) ==
    IF r = "ok" \/ ExceptFc2error(r) THEN "loop_top" ELSE "shutting_down"

\* cam.retrieveBuffer() inside try/except PyCapture2.Fc2error.
Retrieve(w) ==
    /\ pc[w] = "retrieve"
    /\ \E r \in {"ok", "Fc2error"} :
          /\ lastRetrieve' = [lastRetrieve EXCEPT ![w] = r]
          /\ pc' = [pc EXCEPT ![w] = AfterRetrieve(r)]
    /\ UNCHANGED mgrVars
    /\ UNCHANGED barrierVars
    /\ UNCHANGED << outcome, polled, arrived, released, fired, disconnects, stopInPoll >>

\* The finally block: cam.stopCapture() then cam.disconnect(); if stopCapture
\* raises, disconnect is not reached. The process ends either way.
ShutDown(w) ==
    /\ pc[w] = "shutting_down"
    /\ \E r \in {"ok", "Fc2error"} :
          IF r = "ok"
             THEN disconnects' = [disconnects EXCEPT ![w] = @ + 1]
             ELSE UNCHANGED disconnects
    /\ pc' = [pc EXCEPT ![w] = "terminated"]
    /\ UNCHANGED mgrVars
    /\ UNCHANGED barrierVars
    /\ UNCHANGED << outcome, lastRetrieve, polled, arrived, released, fired, stopInPoll >>

WorkerStep(w) ==
    \/ Setup(w)
    \/ LoopTop(w)
    \/ PollReady(w)
    \/ BarrierArrive(w)
    \/ BarrierWake(w)
    \/ BarrierTimeout(w)
    \/ Fire(w)
    \/ Retrieve(w)
    \/ ShutDown(w)

Next ==
    \/ Start
    \/ StopSet
    \/ StopAbort
    \/ StopJoin
    \/ \E w \in Cams : WorkerStep(w)

Spec == Init /\ [][Next]_vars

\* Scheduling: every process that can take a step eventually takes it, and a
\* 5 s timeout that stays pending eventually elapses. Nothing makes the
\* caller call stop(), and nothing makes a camera clear bit 31.
Fairness ==
    /\ WF_vars(Start)
    /\ WF_vars(StopAbort)
    /\ WF_vars(StopJoin)
    /\ \A w \in Cams :
          /\ WF_vars(Setup(w))
          /\ WF_vars(LoopTop(w))
          /\ WF_vars(BarrierArrive(w))
          /\ WF_vars(BarrierWake(w))
          /\ WF_vars(BarrierTimeout(w))
          /\ WF_vars(Fire(w))
          /\ WF_vars(Retrieve(w))
          /\ WF_vars(ShutDown(w))

FairSpec == Init /\ [][Next]_vars /\ Fairness

----------------------------------------------------------------------------
\* Properties

\* barrier.abort() has been called by stop().
Aborted == mgr \in {"stop_join", "returned"}

\* Some barrier.wait has timed out.
TimedOut == \E w \in Workers : outcome[w] = "timeout"

\* C1: a worker is about to fire only when its barrier wait returned
\* successfully, and by then every one of the N workers has polled its camera
\* ready and arrived at the barrier at least as many times as this worker
\* has been released; a blocked worker's wait cannot return while some
\* worker has not yet arrived in its generation.
C1_FireAfterAllArrived ==
    \A w \in Workers :
       /\ pc[w] = "fire" =>
             /\ outcome[w] = "released"
             /\ released[w] = arrived[w]
             /\ released[w] <= gen
             /\ \A v \in Workers :
                   polled[v] >= arrived[v] /\ arrived[v] >= released[w]
       /\ (pc[w] = "barrier_wait" /\ \E v \in Workers : arrived[v] < arrived[w])
             => b_state # DRAINING

\* Two workers, the first blocked until the second arrived, both released.
C1_Witness ==
    /\ num_cams = 2
    /\ gen = 1
    /\ pc[0] = "fire"
    /\ pc[1] = "fire"

\* C2: while the barrier is not broken, every generation releases all N
\* workers and each of them once: between rounds every worker has been
\* released exactly gen times, and while the barrier drains each worker has
\* either been released in this generation or is still blocked, about to be.
\* No worker is ever released more often than the barrier has released.
C2_AllReleasedOnce ==
    /\ \A w \in Workers : released[w] <= gen
    /\ b_state = FILLING => \A w \in Workers : released[w] = gen
    /\ b_state = DRAINING =>
          \A w \in Workers :
             \/ released[w] = gen
             \/ released[w] = gen - 1 /\ pc[w] = "barrier_wait"

\* A full round of two workers has completed and the barrier is open again.
C2_Witness ==
    /\ num_cams = 2
    /\ gen >= 1
    /\ b_state = FILLING
    /\ b_count = 0
    /\ \A w \in Workers : released[w] = gen

\* C3: the workers that fire in one generation are all N or none: whenever a
\* worker has fired more often than another has been released, that other
\* one is still blocked in the barrier (and will be released).
C3_NoUnmatchedTrigger ==
    \A w \in Workers : \A v \in Workers :
       fired[w] > released[v] => pc[v] = "barrier_wait"

\* C4: a worker whose barrier wait timed out keeps running: unless stop has
\* been requested, it is not on its way out of run.
C4_TimeoutRepolls ==
    \A w \in Workers :
       (outcome[w] = "timeout" /\ ~stop_event)
          => pc[w] \notin {"shutting_down", "terminated"}

\* C5: timeouts leave the barrier usable: unless stop() aborted it, the
\* barrier is not broken and no waiter has been thrown out as broken, so a
\* later round of N arrivals can release.
C5_TimeoutLeavesBarrierUsable ==
    ~Aborted =>
       /\ b_state # BROKEN
       /\ \A w \in Workers : outcome[w] # "broken"

C7_StopReturnsAllDisconnected ==
    mgr = "returned" =>
       \A w \in Workers : pc[w] = "terminated" /\ disconnects[w] = 1

\* C8: once stop() is called it eventually returns, whatever the cameras do.
C8_StopTerminates == stop_event ~> (mgr = "returned")

\* C9: a worker that was polling when the stop signal was set leaves the poll
\* only towards shutdown: it never reaches the barrier, fire or retrieve.
C9_StopInPollNeverFires ==
    \A w \in Workers :
       stopInPoll[w] => pc[w] \in {"poll", "shutting_down", "terminated"}

\* C10: a failed retrieveBuffer takes the worker back to the while condition,
\* and from there, with the stop signal not set, its next step starts the
\* next poll.
C10_RetrieveErrorContinues ==
    [][\A w \in Workers :
          /\ (pc[w] = "retrieve" /\ lastRetrieve'[w] = "Fc2error" /\ pc'[w] # pc[w])
                => pc'[w] = "loop_top"
          /\ (pc[w] = "loop_top" /\ lastRetrieve[w] = "Fc2error" /\ ~stop_event
                /\ pc'[w] # pc[w])
                => pc'[w] = "poll"]_vars

\* A worker whose first retrieve failed has gone through the next poll and
\* barrier round and is about to fire again.
C10_Witness ==
    \E w \in Workers :
       lastRetrieve[w] = "Fc2error" /\ fired[w] = 1 /\ pc[w] = "fire"

\* C11: a failed trigger write is not fatal: whatever writeRegister does, the
\* worker's next control point after the fire statement is the retrieve.
C11_FireErrorContinues ==
    [][\A w \in Workers :
          (pc[w] = "fire" /\ pc'[w] # pc[w]) => pc'[w] = "retrieve"]_vars

\* Worker v failed in connect or trigger configuration and went to the
\* finally block: with the stop signal not set, only that takes a worker
\* there before it has finished a poll.
SetupFailed(v) ==
    /\ ~stop_event
    /\ polled[v] = 0
    /\ \/ pc[v] = "shutting_down"
       \/ pc[v] = "terminated" /\ disconnects[v] = 1

\* C12: a worker's fatal setup error ends that worker only: once it has
\* failed, and while the stop signal is not set, no step throws another
\* worker out of its loop by way of the barrier.
C12_FatalErrorIsLocal ==
    [][\A v \in Workers : \A w \in Workers :
          (SetupFailed(v) /\ w # v /\ pc[w] # "shutting_down")
             => ~(pc'[w] = "shutting_down" /\ outcome'[w] \in {"timeout", "broken"})]_vars

\* C13: every run of the finally block, whichever way the worker came to it,
\* calls disconnect, and once.
C13_DisconnectExactlyOnce ==
    [][\A w \in Workers :
          (pc[w] = "shutting_down" /\ pc'[w] = "terminated")
             => (disconnects[w] = 0 /\ disconnects'[w] = 1)]_vars

\* C14: the barrier's count stays within 0 .. N and counts exactly the
\* workers blocked in the wait; while the barrier fills they all belong to
\* the generation being formed, and while it drains they all belong to the
\* generation just released: no arrival for the next generation is counted
\* before the count is back at 0.
C14_CountWithinGeneration ==
    /\ b_count \in 0 .. num_cams
    /\ b_count = Cardinality({w \in Workers : pc[w] = "barrier_wait"})
    /\ b_state = FILLING =>
          \A w \in Workers : pc[w] = "barrier_wait" => arrived[w] = gen + 1
    /\ b_state = DRAINING =>
          /\ b_count > 0
          /\ \A w \in Workers : pc[w] = "barrier_wait" => arrived[w] = gen

\* The barrier is draining, one waiter of the released generation not yet
\* out, while the last arriver has fired, retrieved and is back at the
\* barrier for the next generation, its arrival not counted.
C14_Witness ==
    /\ b_state = DRAINING
    /\ b_count = 1
    /\ \E w \in Workers :
          pc[w] = "rendezvous" /\ arrived[w] = gen /\ fired[w] = gen

\* C15: start() makes one worker per camera: the workers spawned so far hold
\* the camera indices 0 .. processes-1, no two of them the same one; once
\* start() has returned there are exactly num_cams workers, holding exactly
\* the indices 0 .. num_cams-1; and the one barrier they share is built for
\* num_cams parties.
C15_OneWorkerPerCamera ==
    /\ \A p \in Cams : (cam_index[p] # -1) <=> (p < processes)
    /\ \A p \in Cams : \A q \in Cams :
          (p < processes /\ q < processes /\ p # q) => cam_index[p] # cam_index[q]
    /\ {cam_index[p] : p \in 0 .. (processes - 1)} = 0 .. (processes - 1)
    /\ mgr # "start" => processes = num_cams
    /\ Parties = num_cams

\* start() has returned with two workers spawned, on cameras 0 and 1.
C15_Witness ==
    /\ mgr = "running"
    /\ num_cams = 2
    /\ processes = 2
    /\ cam_index[0] = 0
    /\ cam_index[1] = 1

\* C16: stop() sets the stop signal, then aborts the barrier, then joins:
\* once it has aborted, the stop signal is set and the barrier is broken;
\* and no step of the manager or of a worker clears the stop signal.
C16_StopOrder ==
    /\ [](Aborted => (stop_event /\ b_state = BROKEN))
    /\ [](mgr = "stop_abort" => stop_event)
    /\ [][stop_event => stop_event']_vars

\* stop() has aborted the barrier and is joining while a worker still runs.
C16_Witness ==
    /\ mgr = "stop_join"
    /\ stop_event
    /\ \E w \in Workers : pc[w] \in {"poll", "barrier_wait", "retrieve"}

C18_Lockstep ==
    \A i \in Workers : \A j \in Workers :
       fired[i] - fired[j] <= 1

\* One worker has fired its second trigger, the other only its first.
C18_Witness ==
    /\ num_cams = 2
    /\ fired[0] = 2
    /\ fired[1] = 1

C20_CycleOrder ==
    /\ [](\A w \in Workers :
            /\ fired[w] <= released[w]
            /\ released[w] <= arrived[w]
            /\ arrived[w] <= polled[w]
            /\ polled[w] <= fired[w] + 1
            /\ pc[w] = "fire" =>
                  (outcome[w] = "released" /\ polled[w] = released[w]
                     /\ fired[w] = released[w] - 1)
            /\ pc[w] = "retrieve" => (fired[w] = released[w] /\ fired[w] = polled[w]))
    /\ [][\A w \in Workers :
            /\ (pc'[w] = "retrieve" /\ pc[w] # "retrieve")
                  => (pc[w] = "fire" /\ fired'[w] = fired[w] + 1)
            /\ fired'[w] # fired[w] => (pc[w] = "fire" /\ fired'[w] = fired[w] + 1)
            /\ lastRetrieve'[w] # lastRetrieve[w] => pc[w] = "retrieve"
            /\ pc[w] = "retrieve" => pc'[w] \in {"retrieve", "loop_top"}]_vars

\* A worker in the retrieve of its second cycle.
C20_Witness ==
    \E w \in Workers :
       pc[w] = "retrieve" /\ fired[w] = 2 /\ polled[w] = 2 /\ released[w] = 2

====
